---- MODULE Spec2Model ----
(***************************************************************************)
(* Model of the review-extraction pipeline of index.js:                    *)
(*   GET /api/reviews -> extractReviews -> clearScreenshotsFolder,         *)
(*   scroll/capture loop, analyzeScreenshots (vision call + reply parsing). *)
(*                                                                         *)
(* Texts returned by the vision model are sequences of lexical tokens:     *)
(* the code fence, the word json, a newline, a prose word, the JSON        *)
(* punctuation and a few JSON literals.                                    *)
(***************************************************************************)
EXTENDS Integers, Sequences, FiniteSets, TLC

\* ------------------------------------------------------------------ bounds
MaxTextLen == 3      \* longest arbitrary model reply, in tokens
MaxProse == 1        \* longest prose before / after a payload, in tokens
MaxFrames == 3       \* tallest page, in viewports
MaxRuns == 2         \* requests received in one behaviour

\* ------------------------------------------------------- lexical alphabet
FENCE == "fence"            \* three backticks
JSONWORD == "json"
NL == "\n"
WORD == "word"
LBRACE == "{"
RBRACE == "}"
LBRACK == "["
RBRACK == "]"
COLON == ":"
COMMA == ","
REVIEWSKEY == "\"reviews\""
STR == "\"text\""
NUM == "5"
NULLLIT == "null"
UNDEFINED == "undefined"

StringTokens == {REVIEWSKEY, STR}
ScalarTokens == StringTokens \cup {NUM, NULLLIT}
Tokens == {FENCE, JSONWORD, NL, WORD, LBRACE, RBRACE, LBRACK, RBRACK,
           COLON, COMMA, REVIEWSKEY, STR, NUM, NULLLIT}

At(t, i) == IF i >= 1 /\ i <= Len(t) THEN t[i] ELSE "EOF"

\* ------------------------------------------------- analyzeScreenshots: parsing
\* content.replace: every match of fence-json-optional-newline, or of
\* optional-newline-fence, is deleted (alternatives tried in that order)
RECURSIVE StripFences(_)
StripFences(s) ==
  IF s = <<>> THEN <<>>
  ELSE IF At(s, 1) = FENCE /\ At(s, 2) = JSONWORD
       THEN StripFences(SubSeq(s, IF At(s, 3) = NL THEN 4 ELSE 3, Len(s)))
  ELSE IF At(s, 1) = NL /\ At(s, 2) = FENCE
       THEN StripFences(SubSeq(s, 3, Len(s)))
  ELSE IF At(s, 1) = FENCE
       THEN StripFences(Tail(s))
  ELSE <<s[1]>> \o StripFences(Tail(s))

\* String.prototype.trim
RECURSIVE Trim(_)
Trim(s) ==
  IF s = <<>> THEN <<>>
  ELSE IF s[1] = NL THEN Trim(Tail(s))
  ELSE IF s[Len(s)] = NL THEN Trim(SubSeq(s, 1, Len(s) - 1))
  ELSE s

cleanedContent(content) == Trim(StripFences(content))

\* JSON.parse: white space between tokens is skipped
RECURSIVE SkipWhitespace(_)
SkipWhitespace(s) ==
  IF s = <<>> THEN <<>>
  ELSE IF s[1] = NL THEN SkipWhitespace(Tail(s))
  ELSE <<s[1]>> \o SkipWhitespace(Tail(s))

\* JSON.parse: the grammar.  Each operator returns the index after the
\* construct that starts at i, or 0 when there is a syntax error.
RECURSIVE ParseValue(_, _), ParseElements(_, _), ParseMembers(_, _)
ParseValue(t, i) ==
  IF At(t, i) \in ScalarTokens THEN i + 1
  ELSE IF At(t, i) = LBRACK
       THEN IF At(t, i + 1) = RBRACK THEN i + 2 ELSE ParseElements(t, i + 1)
  ELSE IF At(t, i) = LBRACE
       THEN IF At(t, i + 1) = RBRACE THEN i + 2 ELSE ParseMembers(t, i + 1)
  ELSE 0

ParseElements(t, i) ==
  LET j == ParseValue(t, i) IN
  IF j = 0 THEN 0
  ELSE IF At(t, j) = COMMA THEN ParseElements(t, j + 1)
  ELSE IF At(t, j) = RBRACK THEN j + 1
  ELSE 0

ParseMembers(t, i) ==
  IF At(t, i) \in StringTokens /\ At(t, i + 1) = COLON
  THEN LET j == ParseValue(t, i + 2) IN
       IF j = 0 THEN 0
       ELSE IF At(t, j) = COMMA THEN ParseMembers(t, j + 1)
       ELSE IF At(t, j) = RBRACE THEN j + 1
       ELSE 0
  ELSE 0

\* JSON.parse(text): ok = no SyntaxError; value = the parsed value, written
\* as its tokens without white space.
JSONparse(text) ==
  LET t == SkipWhitespace(text) IN
  IF t # <<>> /\ ParseValue(t, 1) = Len(t) + 1
  THEN [ok |-> TRUE, value |-> t]
  ELSE [ok |-> FALSE, value |-> <<>>]

\* cleanedContent.match of the greedy brace pattern: from the first open
\* brace to the last close brace
jsonMatchFirstClose(s) ==
  LET opens == {i \in 1..Len(s) : s[i] = LBRACE} IN
  IF opens = {} THEN [found |-> FALSE, text |-> <<>>]
  ELSE LET f == CHOOSE i \in opens : \A k \in opens : i <= k
           closes == {i \in (f + 1)..Len(s) : s[i] = RBRACE} IN
       IF closes = {} THEN [found |-> FALSE, text |-> <<>>]
       ELSE LET l == CHOOSE i \in closes : \A k \in closes : i <= k IN
            [found |-> TRUE, text |-> SubSeq(s, f, l)]

jsonMatch(s) ==
  LET opens == {i \in 1..Len(s) : s[i] = LBRACE} IN
  IF opens = {} THEN [found |-> FALSE, text |-> <<>>]
  ELSE LET f == CHOOSE i \in opens : \A k \in opens : i <= k
           closes == {i \in (f + 1)..Len(s) : s[i] = RBRACE} IN
       IF closes = {} THEN [found |-> FALSE, text |-> <<>>]
       ELSE LET l == CHOOSE i \in closes : \A k \in closes : i >= k IN
            [found |-> TRUE, text |-> SubSeq(s, f, l)]

\* the value { reviews: [] }
EmptyReviews == <<LBRACE, REVIEWSKEY, COLON, LBRACK, RBRACK, RBRACE>>

\* lines 100-125: what analyzeScreenshots returns for a reply text
parsedContent(content) ==
  LET cleaned == cleanedContent(content)
      strict == JSONparse(cleaned) IN
  IF strict.ok THEN strict.value
  ELSE LET m == jsonMatch(cleaned) IN
       IF m.found /\ JSONparse(m.text).ok THEN JSONparse(m.text).value
       ELSE EmptyReviews

\* ------------------------------------------- extractReviews: use of the result
Depth(v, i) ==
  Cardinality({k \in 1..(i - 1) : v[k] \in {LBRACE, LBRACK}})
    - Cardinality({k \in 1..(i - 1) : v[k] \in {RBRACE, RBRACK}})

\* positions of the own keys named reviews of the object v
ReviewsKeyPositions(v) ==
  {k \in 2..Len(v) : /\ At(v, 1) = LBRACE
                     /\ v[k] = REVIEWSKEY
                     /\ At(v, k + 1) = COLON
                     /\ v[k - 1] \in {LBRACE, COMMA}
                     /\ Depth(v, k) = 1}

\* reviews.reviews for a parsed value other than null (a repeated key keeps
\* its last value; a missing key reads as undefined)
reviewsProperty(v) ==
  LET ks == ReviewsKeyPositions(v) IN
  IF ks = {} THEN <<UNDEFINED>>
  ELSE LET k == CHOOSE x \in ks : \A y \in ks : x >= y IN
       SubSeq(v, k + 2, ParseValue(v, k + 2) - 1)

\* [].concat(x): an array is spread, anything else becomes one element
concat(x) == IF At(x, 1) = LBRACK THEN x ELSE <<LBRACK>> \o x \o <<RBRACK>>

EmptyList == <<LBRACK, RBRACK>>

\* a well-formed review payload: an object whose reviews property is a list
IsReviewPayload(v) == At(v, 1) = LBRACE /\ At(reviewsProperty(v), 1) = LBRACK

\* ---------------------------------------------------------------- pipeline
viewportHeight == 1000

\* the requests, numbered in order of arrival
Procs == 1..MaxRuns

\* page heights the renderer may measure
Heights ==
  {0} \cup {k * viewportHeight + d :
              k \in 0..(MaxFrames - 1), d \in {1, 500, viewportHeight}}

\* Math.ceil(bodyHeight / viewportHeight)
MathCeilFloor(a, b) == a \div b
MathCeil(a, b) == IF a % b = 0 THEN a \div b ELSE (a \div b) + 1

\* screenshot_<i>.png and openai_error_response.txt in screenshotsDir
ScreenshotName(i) == <<"screenshot", i>>
errorLogName == <<"openai_error_response", 0>>
FileNames == {ScreenshotName(k) : k \in 0..(MaxFrames - 1)} \cup {errorLogName}

\* file contents: the run that wrote it and the scroll offset it shows
NoFile == [run |-> 0, y |-> 0]
Frame(r, y) == [run |-> r, y |-> y]
ErrorDump(r) == [run |-> r, y |-> -1]

\* errors thrown by the browser: err.name
Errors == {"TimeoutError", "Error"}

\* outcomes of openai.chat.completions.create: a rejection, or a reply text
ApiError == <<"rejected">>
OnePayload ==
  <<LBRACE, REVIEWSKEY, COLON, LBRACK, LBRACE, STR, COLON, NUM, RBRACE,
    RBRACK, RBRACE>>
Replies ==
  { OnePayload,
    <<WORD, NL, FENCE, JSONWORD, NL>> \o OnePayload \o <<NL, FENCE>>,
    <<WORD>>,
    <<NULLLIT>>,
    <<NUM>> }

\* lines 85-129: the value analyzeScreenshots returns
analyzeScreenshots(api) ==
  IF api = ApiError THEN EmptyReviews ELSE parsedContent(api)

NoResponse == [status |-> 0, reviews |-> <<>>, errorDetails |-> "absent"]

\* res.json / res.status(...).json of the /api/reviews handler
respondOK(reviews, errorDetails) ==
  [status |-> 200, reviews |-> reviews, errorDetails |-> errorDetails]
respondError(name) ==
  [status |-> IF name = "TimeoutError" THEN 504 ELSE 500,
   reviews |-> <<>>, errorDetails |-> "absent"]
respondMissingPage == [status |-> 400, reviews |-> <<>>, errorDetails |-> "absent"]

VARIABLES
  proc,         \* per request: the locals of handler and extractReviews
  files,        \* screenshotsDir: file name -> content
  dirExists,    \* screenshotsDir exists
  openBrowsers, \* runs whose browser is open
  closes,       \* run -> number of browser.close() calls
  runs,         \* extraction requests received so far
  rpc, rawText, payload, prefix, suffix, reconciled, bareResult

pipeVars == <<proc, files, dirExists, openBrowsers, closes, runs>>
replyVars == <<rpc, rawText, payload, prefix, suffix, reconciled, bareResult>>
vars == <<proc, files, dirExists, openBrowsers, closes, runs,
          rpc, rawText, payload, prefix, suffix, reconciled, bareResult>>

IdleProc ==
  [pc |-> "idle",
   rendered |-> FALSE,
   bodyHeight |-> 0, numScreenshots |-> 0, i |-> 0, scrollY |-> 0,
   screenshotBuffer |-> NoFile, screenshotsBase64 |-> <<>>, saved |-> <<>>,
   listing |-> {}, visionCalls |-> <<>>, visionFailed |-> FALSE,
   allReviews |-> EmptyList, errorDetails |-> "null", thrown |-> "none",
   response |-> NoResponse]

Init ==
  /\ proc = [p \in Procs |-> IdleProc]
  /\ files = [f \in FileNames |-> NoFile]
  /\ dirExists = FALSE
  /\ openBrowsers = {}
  /\ closes = [r \in 1..MaxRuns |-> 0]
  /\ runs = 0
  /\ rpc = "off" /\ rawText = <<>> /\ payload = <<>> /\ prefix = <<>>
  /\ suffix = <<>> /\ reconciled = <<>> /\ bareResult = <<>>

Busy == {p \in Procs : proc[p].pc \notin {"idle", "done"}}

\* line 216-219: request without a page parameter
BadRequest(p) ==
  /\ proc[p].pc = "idle"
  /\ p = runs + 1
  /\ runs' = runs + 1
  /\ proc' = [proc EXCEPT ![p].pc = "done", ![p].response = respondMissingPage]
  /\ UNCHANGED <<files, dirExists, openBrowsers, closes, replyVars>>

\* lines 214-224, 132-138: request accepted, chromium.launch()
Request(p, overlap) ==
  /\ proc[p].pc = "idle"
  /\ p = runs + 1
  /\ overlap \/ Busy = {}
  /\ runs' = runs + 1
  /\ proc' = [proc EXCEPT ![p].pc = "newPage"]
  /\ openBrowsers' = openBrowsers \cup {p}
  /\ UNCHANGED <<files, dirExists, closes, replyVars>>

\* line 135: browser.newPage(), outside the try block
NewPage(p) ==
  /\ proc[p].pc = "newPage"
  /\ \/ proc' = [proc EXCEPT ![p].pc = "render"]
     \/ \E e \in Errors :
          proc' = [proc EXCEPT ![p] =
                     [IdleProc EXCEPT !.pc = "done",
                                      !.response = respondError(e)]]
  /\ UNCHANGED <<files, dirExists, openBrowsers, closes, runs, replyVars>>

\* lines 141-172: goto, waitForSelector, viewport, scroll to the bottom,
\* measure bodyHeight, compute numScreenshots
Render(p, heights) ==
  /\ proc[p].pc = "render"
  /\ \/ \E h \in heights :
          proc' = [proc EXCEPT ![p].pc = "readdir", ![p].rendered = TRUE,
                               ![p].bodyHeight = h, ![p].scrollY = h,
                               ![p].numScreenshots = MathCeil(h, viewportHeight),
                               ![p].screenshotsBase64 = <<>>]
     \/ \E e \in Errors :
          proc' = [proc EXCEPT ![p].pc = "finally", ![p].thrown = e]
  /\ UNCHANGED <<files, dirExists, openBrowsers, closes, runs, replyVars>>

\* line 37: fs.readdir(screenshotsDir); ENOENT is caught at line 40
ReadDir(p) ==
  /\ proc[p].pc = "readdir"
  /\ IF dirExists
     THEN proc' = [proc EXCEPT ![p].pc = "unlink",
                               ![p].listing = {f \in FileNames : files[f] # NoFile}]
     ELSE proc' = [proc EXCEPT ![p].pc = "mkdir"]
  /\ UNCHANGED <<files, dirExists, openBrowsers, closes, runs, replyVars>>

\* line 38: unlink every listed file
UnlinkOwn(p, listing) ==
  [f \in FileNames |->
     IF f \in listing /\ files[f].run = p THEN NoFile ELSE files[f]]
UnlinkKeepDump(p, listing) ==
  [f \in FileNames |->
     IF f \in listing /\ f # errorLogName THEN NoFile ELSE files[f]]
Unlinked(p, listing) ==
  [f \in FileNames |-> IF f \in listing THEN NoFile ELSE files[f]]

Unlink(p) ==
  /\ proc[p].pc = "unlink"
  /\ files' = Unlinked(p, proc[p].listing)
  /\ proc' = [proc EXCEPT ![p].pc = "mkdir", ![p].listing = {}]
  /\ UNCHANGED <<dirExists, openBrowsers, closes, runs, replyVars>>

\* line 176: fs.mkdir(screenshotsDirPath, { recursive: true }); line 178: i = 0
Mkdir(p) ==
  /\ proc[p].pc = "mkdir"
  /\ dirExists' = TRUE
  /\ proc' = [proc EXCEPT ![p].pc = "loop", ![p].i = 0]
  /\ UNCHANGED <<files, openBrowsers, closes, runs, replyVars>>

\* lines 178-182: loop test, yOffset = i * viewportHeight, window.scrollTo
yOffset(i) == i * viewportHeight

Scroll(p) ==
  /\ proc[p].pc = "loop"
  /\ proc[p].i < proc[p].numScreenshots
  /\ proc' = [proc EXCEPT ![p].pc = "screenshot",
                          ![p].scrollY = yOffset(proc[p].i)]
  /\ UNCHANGED <<files, dirExists, openBrowsers, closes, runs, replyVars>>

\* lines 184-186: page.screenshot(), push onto screenshotsBase64
Screenshot(p) ==
  /\ proc[p].pc = "screenshot"
  /\ \/ LET buf == Frame(p, proc[p].scrollY) IN
        proc' = [proc EXCEPT ![p].pc = "writeFile",
                             ![p].screenshotBuffer = buf,
                             ![p].screenshotsBase64 = Append(@, buf)]
     \/ \E e \in Errors :
          proc' = [proc EXCEPT ![p].pc = "finally", ![p].thrown = e]
  /\ UNCHANGED <<files, dirExists, openBrowsers, closes, runs, replyVars>>

\* lines 188-190, 178: fs.writeFile(screenshot_i.png), log, i++
WriteFileNoAwait(p) ==
  /\ proc[p].pc = "writeFile"
  /\ proc' = [proc EXCEPT ![p].pc = "loop",
                          ![p].screenshotBuffer = NoFile,
                          ![p].saved = Append(@, proc[p].i),
                          ![p].i = @ + 1]
  /\ UNCHANGED <<files, dirExists, openBrowsers, closes, runs, replyVars>>

WriteFile(p) ==
  /\ proc[p].pc = "writeFile"
  /\ files' = [files EXCEPT ![ScreenshotName(proc[p].i)] = proc[p].screenshotBuffer]
  /\ proc' = [proc EXCEPT ![p].pc = "loop",
                          ![p].screenshotBuffer = NoFile,
                          ![p].saved = Append(@, proc[p].i),
                          ![p].i = @ + 1]
  /\ UNCHANGED <<dirExists, openBrowsers, closes, runs, replyVars>>

\* lines 78-83, 194: the images of the vision call are the in-memory frames
base64ImagesFromDir(p) ==
  [k \in 1..proc[p].numScreenshots |-> files[ScreenshotName(k - 1)]]
base64Images(p) == proc[p].screenshotsBase64

\* lines 193-204: analyzeScreenshots(screenshotsBase64), concat, inner catch
Analyze(p, replies) ==
  /\ proc[p].pc = "loop"
  /\ ~(proc[p].i < proc[p].numScreenshots)
  /\ \E api \in {ApiError} \cup replies :
       LET reviews == analyzeScreenshots(api) IN
       IF reviews = <<NULLLIT>>
       THEN \* reviews.reviews throws a TypeError
            /\ proc' = [proc EXCEPT ![p].pc = "finally", ![p].visionCalls = Append(@, base64Images(p)),
                          ![p].visionFailed = (api = ApiError),
                          ![p].errorDetails = "TypeError"]
            /\ files' = [files EXCEPT ![errorLogName] = ErrorDump(p)]
       ELSE /\ proc' = [proc EXCEPT ![p].pc = "finally", ![p].visionCalls = Append(@, base64Images(p)),
                          ![p].visionFailed = (api = ApiError),
                          ![p].allReviews = concat(reviewsProperty(reviews))]
            /\ UNCHANGED files
  /\ UNCHANGED <<dirExists, openBrowsers, closes, runs, replyVars>>

\* lines 225-240: the response the handler sends for the outcome of
\* extractReviews
handlerResponse(r) ==
  IF r.thrown = "none" THEN respondOK(r.allReviews, r.errorDetails)
  ELSE respondError(r.thrown)

\* lines 205-211: catch/rethrow, finally browser.close(); then the handler
\* responds.  The locals of the finished call are gone, the response remains.
Finally(p) ==
  /\ proc[p].pc = "finally"
  /\ openBrowsers' = openBrowsers \ {p}
  /\ closes' = [closes EXCEPT ![p] = @ + 1]
  /\ proc' = [proc EXCEPT ![p] =
                [IdleProc EXCEPT !.pc = "done",
                                 !.response = handlerResponse(proc[p])]]
  /\ UNCHANGED <<files, dirExists, runs, replyVars>>

Step(p, heights, replies) ==
  \/ NewPage(p) \/ Render(p, heights) \/ ReadDir(p) \/ Unlink(p) \/ Mkdir(p)
  \/ Scroll(p) \/ Screenshot(p) \/ WriteFile(p) \/ Analyze(p, replies)
  \/ Finally(p)

\* page heights and replies used when requests overlap: pages of 0, 1 and 2
\* frames; a payload, and the reply that makes extractReviews write the dump
OverlapHeights == {0, viewportHeight, viewportHeight + 1}
OverlapReplies == {OnePayload, <<NULLLIT>>}

\* requests may overlap (no coordination between requests)
Next ==
  \E p \in Procs :
    BadRequest(p) \/ Request(p, TRUE) \/ Step(p, OverlapHeights, OverlapReplies)
Spec == Init /\ [][Next]_vars

\* one request at a time
NextSeq ==
  \E p \in Procs : BadRequest(p) \/ Request(p, FALSE) \/ Step(p, Heights, Replies)
SpecSeq == Init /\ [][NextSeq]_vars

\* ------------------------------------------------ reply parsing on its own
SeqsUpTo(S, n) == UNION {[1..k -> S] : k \in 0..n}

ProseTokens == {WORD, NL, JSONWORD, LBRACE, RBRACE, LBRACK, RBRACK, NUM, COMMA}

\* well-formed review payloads
Payloads ==
  { EmptyReviews,
    OnePayload,
    <<LBRACE, NL, STR, COLON, NUM, COMMA, REVIEWSKEY, COLON, LBRACK, STR,
      RBRACK, NL, RBRACE>> }

\* code-fence wrappings
FenceOpens == {<<>>, <<FENCE, JSONWORD, NL>>, <<FENCE, NL>>,
               <<NL, FENCE, JSONWORD, NL>>}
FenceCloses == {<<>>, <<NL, FENCE>>, <<FENCE>>}

InitReply ==
  /\ proc = [p \in Procs |-> IdleProc]
  /\ files = [f \in FileNames |-> NoFile]
  /\ dirExists = FALSE
  /\ openBrowsers = {}
  /\ closes = [r \in 1..MaxRuns |-> 0]
  /\ runs = 0
  /\ rpc = "reply"
  /\ reconciled = <<>> /\ bareResult = <<>>
  /\ \/ /\ rawText \in SeqsUpTo(Tokens, MaxTextLen)
        /\ payload = <<>> /\ prefix = <<>> /\ suffix = <<>>
     \/ /\ payload \in Payloads
        /\ prefix \in SeqsUpTo(ProseTokens, MaxProse)
        /\ suffix \in SeqsUpTo(ProseTokens, MaxProse)
        /\ \E o \in FenceOpens, c \in FenceCloses :
             rawText = prefix \o o \o payload \o c \o suffix

\* analyzeScreenshots on the reply, and on the bare payload it wraps
Reconcile ==
  /\ rpc = "reply"
  /\ rpc' = "done"
  /\ reconciled' = analyzeScreenshots(rawText)
  /\ bareResult' = IF payload = <<>> THEN <<>> ELSE analyzeScreenshots(payload)
  /\ UNCHANGED <<pipeVars, rawText, payload, prefix, suffix>>

NextReply == Reconcile
SpecReply == InitReply /\ [][NextReply]_vars

\* ================================================================== claims
ExpectedFrames(run, n) == [k \in 1..n |-> Frame(run, (k - 1) * viewportHeight)]

\* the capture loop of r has run to completion
CaptureDone(r) ==
  /\ r.rendered
  /\ r.thrown = "none"
  /\ \/ r.pc = "loop" /\ ~(r.i < r.numScreenshots)
     \/ r.pc = "finally"

Capturing(r) ==
  /\ r.pc \in {"loop", "screenshot", "writeFile"}
  /\ r.i < r.numScreenshots

\* C1: when render and capture succeeded and the vision-model call failed,
\* the response is not a 5xx, its reviews are the empty list and its
\* errorDetails is not null.
C1_VisionFailureReported ==
  \A p \in Procs :
    (proc[p].pc = "finally" /\ proc[p].thrown = "none" /\ proc[p].visionFailed)
      => LET resp == handlerResponse(proc[p]) IN
         /\ resp.status < 500
         /\ resp.reviews = EmptyList
         /\ resp.errorDetails # "null"

\* C2: every extraction that launched a browser and has terminated closed
\* that browser exactly once: it is not left open and not closed twice.
C2_ClosedExactlyOnce ==
  \A r \in 1..runs :
    /\ closes[r] <= 1
    /\ (proc[r].pc = "done" /\ proc[r].response # respondMissingPage)
         => (closes[r] = 1 /\ r \notin openBrowsers)

\* C3: a completed capture loop holds exactly ceil(h/v) frames, the k-th
\* taken at scroll offset (k-1)*v; h = 0 gives none, 0 < h <= v gives one,
\* h = 2500 with v = 1000 gives three at 0, 1000, 2000.
C3_FrameCount ==
  \A p \in Procs :
    LET r == proc[p]
        h == r.bodyHeight
        n == Len(r.screenshotsBase64) IN
    CaptureDone(r) =>
      /\ (n - 1) * viewportHeight < h
      /\ h <= n * viewportHeight
      /\ \A k \in 1..n : r.screenshotsBase64[k].y = (k - 1) * viewportHeight
      /\ (h = 0 => n = 0)
      /\ (0 < h /\ h <= viewportHeight => n = 1)
      /\ (h = 2500 =>
            [k \in 1..n |-> r.screenshotsBase64[k].y] = <<0, 1000, 2000>>)

C3_Witness ==
  \E p \in Procs :
    /\ CaptureDone(proc[p])
    /\ proc[p].bodyHeight = 2500
    /\ Len(proc[p].screenshotsBase64) = 3

\* C4: within one extraction the loop is sequential: once the scroll for
\* frame i has been made, frames 0..i-1 have each been captured at their own
\* offset, appended in order and written to screenshot_0..screenshot_{i-1};
\* frame i is captured at offset i*v and appended before it is written.
C4_SequentialCapture ==
  \A p \in Procs :
    LET r == proc[p] IN
    r.pc \in {"loop", "screenshot", "writeFile"} =>
      /\ r.saved = [k \in 1..Len(r.saved) |-> k - 1]
      /\ r.screenshotsBase64 = ExpectedFrames(p, Len(r.screenshotsBase64))
      /\ \A k \in 1..Len(r.saved) :
           files[ScreenshotName(k - 1)] = r.screenshotsBase64[k]
      /\ Len(r.saved) = r.i
      /\ (r.pc = "loop" => Len(r.screenshotsBase64) = r.i)
      /\ (r.pc = "screenshot" =>
            Len(r.screenshotsBase64) = r.i /\ r.scrollY = r.i * viewportHeight)
      /\ (r.pc = "writeFile" =>
            /\ Len(r.screenshotsBase64) = r.i + 1
            /\ r.screenshotBuffer = Frame(p, r.i * viewportHeight))

C4_Witness ==
  \E p \in Procs :
    /\ proc[p].pc = "screenshot"
    /\ proc[p].i = 2
    /\ proc[p].scrollY = 2 * viewportHeight
    /\ files[ScreenshotName(1)] = Frame(p, viewportHeight)

\* C5: whatever text the model returns, the value analyzeScreenshots
\* returns is a review payload (an object with a reviews list); every other
\* input degrades to { reviews: [] }.
C5_AlwaysReviewPayload ==
  rpc = "done" => (IsReviewPayload(reconciled) \/ reconciled = EmptyReviews)

\* C6 as stated: a payload wrapped in fences and/or any prose reconciles to
\* the same value as the bare payload.
C6_AnyProseRoundTrip ==
  (rpc = "done" /\ payload # <<>>) => reconciled = bareResult

Occurs(tok, s) == \E k \in 1..Len(s) : s[k] = tok

\* C6 amended: a payload wrapped in fences and/or prose reconciles to the
\* same value as the bare payload, provided the prose has no open brace
\* before the payload, no close brace after it, and does not put the payload
\* between an open and a close square bracket.
C6_CleanProseRoundTrip ==
  (/\ rpc = "done" /\ payload # <<>>
   /\ ~Occurs(LBRACE, prefix)
   /\ ~Occurs(RBRACE, suffix)
   /\ ~(Occurs(LBRACK, prefix) /\ Occurs(RBRACK, suffix)))
    => reconciled = bareResult

C6_Witness ==
  /\ rpc = "done"
  /\ payload = OnePayload
  /\ rawText = <<WORD, NL, FENCE, JSONWORD, NL>> \o OnePayload \o <<NL, FENCE>>
  /\ reconciled = OnePayload
  /\ bareResult = OnePayload

C8_ClearDeletesOthersFrames ==
  [][\A q \in Procs :
       (proc[q].pc = "unlink" /\ proc'[q].pc = "mkdir") =>
         \A p \in Procs \ {q} : \A k \in 0..(MaxFrames - 1) :
           (/\ Capturing(proc[p])
            /\ k < Len(proc[p].saved)
            /\ ScreenshotName(k) \in proc[q].listing)
             => files'[ScreenshotName(k)] = NoFile]_vars

\* the first request is still capturing, has written frames, and the second
\* request's clear has left none of them in the directory
C8_Witness ==
  \E p, q \in Procs :
    /\ p # q
    /\ p < q
    /\ proc[q].pc = "mkdir"
    /\ Capturing(proc[p])
    /\ Len(proc[p].saved) >= 1
    /\ \A k \in 0..(Len(proc[p].saved) - 1) : files[ScreenshotName(k)] = NoFile

\* C9: a request whose frame count is 0 makes no vision-model call.
C9_NoCallWithoutFrames ==
  \A p \in Procs :
    (proc[p].rendered /\ proc[p].numScreenshots = 0) => proc[p].visionCalls = <<>>

\* C10 as stated: every extraction whose render succeeded has, when it
\* ends, made exactly one vision call carrying its own frames; one whose
\* render failed has made none.
C10_OneCallPerRender ==
  \A p \in Procs :
    LET r == proc[p] IN
    r.pc = "finally" =>
      IF r.rendered
      THEN r.visionCalls = <<ExpectedFrames(p, r.numScreenshots)>>
      ELSE r.visionCalls = <<>>

\* C10 amended: every extraction whose render and capture loop both
\* succeeded has, when it ends, made exactly one vision call, made after the
\* loop finished and carrying exactly its own n in-memory frames in capture
\* order, whatever other requests did to the directory; an extraction whose
\* render or capture failed has made none.
C10_OneCallPerCapture ==
  \A p \in Procs :
    LET r == proc[p] IN
    /\ r.visionCalls # <<>> => (r.pc = "finally" /\ r.i = r.numScreenshots)
    /\ r.pc = "finally" =>
         IF r.rendered /\ r.thrown = "none"
         THEN /\ r.visionCalls = <<r.screenshotsBase64>>
              /\ r.screenshotsBase64 = ExpectedFrames(p, r.numScreenshots)
         ELSE r.visionCalls = <<>>

\* a call was made with two frames while the directory no longer holds them
C10_Witness ==
  \E p \in Procs :
    /\ proc[p].pc = "finally"
    /\ proc[p].thrown = "none"
    /\ Len(proc[p].visionCalls) = 1
    /\ proc[p].numScreenshots = 2
    /\ files[ScreenshotName(0)] # Frame(p, 0)

====
